---------------------------- MODULE Spec2Model ----------------------------
(***************************************************************************)
(* ARM Cortex-M reset sequence of src/generic/armcm_boot.c: ResetHandler   *)
(* (stage one), reset_handler_stage_two, the inlined boot_memset and       *)
(* boot_memcpy, DefaultHandler and the dynmem_start/dynmem_end queries.    *)
(*                                                                         *)
(* Memory is a map from byte addresses (multiples of WordSize) to words;   *)
(* size_t and the words are SizeBits wide (the model checker's integers    *)
(* cannot hold 2^32).  A peripheral register is the set of its bits that   *)
(* are 1, so that "reg &= ~mask" is set difference and "reg |= mask" is    *)
(* union.                                                                  *)
(* The interrupt controller keeps, per 32-line register group, whether any *)
(* line of the group is enabled / pending.                                 *)
(***************************************************************************)
EXTENDS Integers, Naturals, Sequences, FiniteSets, TLC

(***************************************************************************)
(* Bounds of the model.                                                    *)
(***************************************************************************)
MaxVt == 2
MaxData == 2
MaxBss == 2
MaxGap == 1
StackWords == 1
NGroups == 2
NIP == 2
NSHP == 2
MaxSpin == 2
MaxN == 3
Poison == 57005
SizeBits == 16
StalePrio == 192

(***************************************************************************)
(* Program constants.                                                      *)
(***************************************************************************)
WordSize == 4
SizeMod == 2 ^ SizeBits
IWDG_KEY_RELOAD == 43690

SysTick_CTRL_ENABLE_Msk == {"ENABLE"}
SysTick_CTRL_TICKINT_Msk == {"TICKINT"}
SysTick_CTRL_CLKSOURCE_Msk == {"CLKSOURCE"}
RCC_BDCR_BDRST == {"BDRST"}
SYSCFG_CFGR1_MEM_MODE_0 == {"MEM_MODE_0"}
SYSCFG_CFGR1_MEM_MODE_1 == {"MEM_MODE_1"}
SCB_ICSR_PENDSVCLR_Msk == {"PENDSV"}
SCB_ICSR_PENDSTCLR_Msk == {"PENDST"}

Groups == 0 .. (NGroups - 1)
IPIdx == 0 .. (NIP - 1)
SHPIdx == 0 .. (NSHP - 1)

(***************************************************************************)
(* Address space: flash words first, then RAM words.                       *)
(***************************************************************************)
FlashWords == MaxVt + MaxData
RamWords == MaxVt + MaxData + MaxBss + MaxGap + StackWords
MemWords == FlashWords + RamWords
RamBase == WordSize * FlashWords
MemTop == WordSize * MemWords
Addrs == {WordSize * k : k \in 0 .. (MemWords - 1)}

(***************************************************************************)
(* The symbols the linker script creates, for a vector table of vtw words, *)
(* a data section of dw words, a bss of bw words and g free words between  *)
(* the bss and the stack.                                                  *)
(***************************************************************************)
LinkerSymbols(vtw, dw, bw, g) ==
    [_text_vectortable_start |-> 0,
     _text_vectortable_end   |-> WordSize * vtw,
     _data_flash             |-> WordSize * vtw,
     _ram_vectortable_start  |-> RamBase,
     _data_start             |-> RamBase + WordSize * vtw,
     _data_end               |-> RamBase + WordSize * (vtw + dw),
     _bss_start              |-> RamBase + WordSize * (vtw + dw),
     _bss_end                |-> RamBase + WordSize * (vtw + dw + bw),
     _stack_start            |-> RamBase + WordSize * (vtw + dw + bw + g),
     _stack_end              |-> RamBase + WordSize * (vtw + dw + bw + g + StackWords)]

Layouts ==
    {LinkerSymbols(vtw, dw, bw, g) :
        vtw \in 1 .. MaxVt, dw \in 0 .. MaxData, bw \in 0 .. MaxBss, g \in 0 .. MaxGap}

DefaultLayout == LinkerSymbols(MaxVt, MaxData, MaxBss, MaxGap)

(***************************************************************************)
(* Memory contents at reset: flash holds the image (a distinct non-zero    *)
(* word per address), RAM holds whatever was left there.                   *)
(***************************************************************************)
RamPatterns == {"zero", "poison", "addr"}

FlashWord(a) == (a \div WordSize) + 1

RamWord(pat, a) ==
    CASE pat = "zero"   -> 0
      [] pat = "poison" -> Poison
      [] OTHER          -> (Poison + a) % SizeMod

ResetMemory(pat) ==
    [a \in Addrs |-> IF a < RamBase THEN FlashWord(a) ELSE RamWord(pat, a)]

VARIABLES
    config,         \* CONFIG_ARMCM_RAM_VECTORTABLE
    lds,            \* the linker symbols (addresses)
    entry,          \* the machine state found at entry to ResetHandler
    pc,             \* position of the boot flow
    handler,        \* "none", or the exception handler that preempted the flow
    spins,          \* iterations of the current for(;;) loop, saturating
    sp,             \* stack pointer
    primask,        \* TRUE: core interrupts masked (cpsid i)
    faultmask,      \* TRUE: fault-capable interrupts masked (cpsid f)
    mem,            \* flash and RAM words
    wcount,         \* number of stores to each word so far
    SysTick_CTRL,
    IWDG_KR,
    RCC_BDCR,
    SYSCFG_CFGR1,
    NVIC_en,        \* groups with an enabled line
    NVIC_pend,      \* groups with a pending line
    NVIC_IP,        \* user interrupt priority registers
    SCB_pend,       \* pending PendSV / SysTick exceptions (ICSR)
    SCB_SHP,        \* system handler priority registers
    i,              \* loop index of reset_handler_stage_two
    d, s,           \* boot_memcpy / memcpy pointers
    p, c,           \* boot_memset pointer and fill value
    n,              \* remaining byte count of the running copy / fill
    cont,           \* where the inlined copy / fill continues when done
    log,            \* register writes, barriers and mask instructions, in order
    ret             \* the last dynmem query and the address it returned

consts == <<config, lds, entry>>
core == <<sp, primask, faultmask>>
periph == <<SysTick_CTRL, IWDG_KR, RCC_BDCR, SYSCFG_CFGR1>>
intc == <<NVIC_en, NVIC_pend, NVIC_IP, SCB_pend, SCB_SHP>>
memv == <<mem, wcount>>
locals == <<i, d, s, p, c, n, cont>>
ctl == <<pc, handler, spins>>
hw == <<sp, primask, faultmask, mem, SysTick_CTRL, IWDG_KR, RCC_BDCR, SYSCFG_CFGR1,
        NVIC_en, NVIC_pend, NVIC_IP, SCB_pend, SCB_SHP>>
vars == <<config, lds, entry, pc, handler, spins, sp, primask, faultmask, mem, wcount,
          SysTick_CTRL, IWDG_KR, RCC_BDCR, SYSCFG_CFGR1, NVIC_en, NVIC_pend, NVIC_IP,
          SCB_pend, SCB_SHP, i, d, s, p, c, n, cont, log, ret>>

(***************************************************************************)
(* Machine states a prior bootloader (or the silicon reset) can leave.     *)
(***************************************************************************)
DefaultEntry ==
    [layout    |-> DefaultLayout,
     pat       |-> "poison",
     sp        |-> 0,
     primask   |-> FALSE,
     faultmask |-> FALSE,
     ctrl      |-> {"ENABLE", "TICKINT", "CLKSOURCE"},
     kr        |-> 0,
     wdg       |-> FALSE,
     bdcr      |-> {},
     cfgr1     |-> {"MEM_MODE_0", "PA11_PA12_RMP"},
     nvic_en   |-> Groups,
     nvic_pend |-> {},
     scb_pend  |-> {},
     ip        |-> StalePrio,
     shp       |-> StalePrio]

CtrlInit == {{}, {"CLKSOURCE"}, {"ENABLE", "CLKSOURCE"}, {"ENABLE", "TICKINT", "CLKSOURCE"}}
KrInit == {0, 1}
BdcrInit == {{}, {"LSEON"}, {"LSEON", "BDRST"}}
Cfgr1Init == {{}, {"MEM_MODE_0"}, {"PA11_PA12_RMP"}, {"MEM_MODE_0", "MEM_MODE_1", "PA11_PA12_RMP"}}
ScbInit == {{}, {"PENDST"}, {"PENDSV", "PENDST"}}
PrioInit == {0, StalePrio}
SpInit == {0, MemTop}

\* the layout, the RAM contents and the stack pointer vary
EntryMemory ==
    {[DefaultEntry EXCEPT !.layout = L, !.pat = pt, !.sp = x] :
        L \in Layouts, pt \in RamPatterns, x \in SpInit}

\* the interrupt state varies
EntryInterrupts ==
    {[DefaultEntry EXCEPT !.ctrl = ct, !.nvic_en = en, !.nvic_pend = pe,
                          !.scb_pend = sc, !.primask = pm, !.faultmask = fm] :
        ct \in CtrlInit, en \in SUBSET Groups, pe \in SUBSET Groups,
        sc \in ScbInit, pm \in BOOLEAN, fm \in BOOLEAN}

\* the peripheral and priority registers vary
EntryPeripherals ==
    {[DefaultEntry EXCEPT !.kr = k, !.bdcr = b, !.cfgr1 = cf, !.ip = ipv, !.shp = sh,
                          !.ctrl = ct] :
        k \in KrInit, b \in BdcrInit, cf \in Cfgr1Init, ipv \in PrioInit,
        sh \in PrioInit, ct \in {{}, {"ENABLE", "TICKINT", "CLKSOURCE"}}}

\* the value read from the watchdog key register and the watchdog's activity vary
EntryWatchdog ==
    {[DefaultEntry EXCEPT !.kr = k, !.wdg = w] : k \in KrInit, w \in BOOLEAN}

Entries == EntryMemory \cup EntryInterrupts \cup EntryPeripherals \cup EntryWatchdog

(***************************************************************************)
(* State when the processor vectors to ResetHandler.                       *)
(***************************************************************************)
Machine(e) ==
    /\ entry = e
    /\ lds = e.layout
    /\ sp = e.sp
    /\ primask = e.primask
    /\ faultmask = e.faultmask
    /\ mem = ResetMemory(e.pat)
    /\ wcount = [a \in Addrs |-> 0]
    /\ SysTick_CTRL = e.ctrl
    /\ IWDG_KR = e.kr
    /\ RCC_BDCR = e.bdcr
    /\ SYSCFG_CFGR1 = e.cfgr1
    /\ NVIC_en = e.nvic_en
    /\ NVIC_pend = e.nvic_pend
    /\ NVIC_IP = [k \in IPIdx |-> e.ip]
    /\ SCB_pend = e.scb_pend
    /\ SCB_SHP = [k \in SHPIdx |-> e.shp]
    /\ handler = "none"
    /\ spins = 0
    /\ log = << >>
    /\ ret = <<"none", 0>>

Reset(E) ==
    /\ config \in BOOLEAN
    /\ \E e \in E : Machine(e)
    /\ pc = "ResetHandler"
    /\ i = 0 /\ d = 0 /\ s = 0 /\ p = 0 /\ c = 0 /\ n = 0
    /\ cont = "none"

Init == Reset(Entries)


(***************************************************************************)
(* Helpers.                                                                *)
(***************************************************************************)
Running(l) == pc = l /\ handler = "none"

Emit(op, idx) == log' = Append(log, <<op, idx>>)

\* a volatile 32-bit store "*q = v"
Store(m, a, v) == IF a \in DOMAIN m THEN [m EXCEPT ![a] = v] ELSE m

Counted(w, a) == IF a \in DOMAIN w THEN [w EXCEPT ![a] = @ + 1] ELSE w

\* "(&end - &start) * 4" on uint32_t pointers, as a 32-bit unsigned value
PtrDiffBytes(end, start) == (((end - start) \div WordSize) * WordSize) % SizeMod

(***************************************************************************)
(* ResetHandler: stage one.                                                *)
(***************************************************************************)
\* mutant: the entry does not mask core interrupts
RH_disable_irq_missing ==
    /\ Running("ResetHandler")
    /\ pc' = IF config THEN "rh_systick" ELSE "rh_jump"
    /\ UNCHANGED <<consts, handler, spins, core, memv, periph, intc, locals, log, ret>>

\* __disable_irq();
RH_disable_irq ==
    /\ Running("ResetHandler")
    /\ primask' = TRUE
    /\ Emit("cpsid_i", 0)
    /\ pc' = IF config THEN "rh_systick" ELSE "rh_jump"
    /\ UNCHANGED <<consts, handler, spins, sp, faultmask, memv, periph, intc, locals, ret>>

\* SysTick->CTRL &= ~(SysTick_CTRL_TICKINT_Msk | SysTick_CTRL_ENABLE_Msk);
RH_systick ==
    /\ Running("rh_systick")
    /\ SysTick_CTRL' = SysTick_CTRL \ (SysTick_CTRL_TICKINT_Msk \cup SysTick_CTRL_ENABLE_Msk)
    /\ Emit("SysTick_CTRL", 0)
    /\ pc' = "rh_iwdg"
    /\ UNCHANGED <<consts, handler, spins, core, memv, IWDG_KR, RCC_BDCR, SYSCFG_CFGR1,
                   intc, locals, ret>>

\* if(IWDG->KR) IWDG->KR = 0x0000AAAAU;
RH_iwdg ==
    /\ Running("rh_iwdg")
    /\ IF IWDG_KR # 0
          THEN IWDG_KR' = IWDG_KEY_RELOAD /\ Emit("IWDG_KR", 0)
          ELSE UNCHANGED <<IWDG_KR, log>>
    /\ pc' = "rh_cpsid_i"
    /\ UNCHANGED <<consts, handler, spins, core, memv, SysTick_CTRL, RCC_BDCR, SYSCFG_CFGR1,
                   intc, locals, ret>>

\* asm volatile("cpsid i" ::: "memory");
RH_cpsid_i ==
    /\ Running("rh_cpsid_i")
    /\ primask' = TRUE
    /\ Emit("cpsid_i", 0)
    /\ pc' = "rh_cpsid_f"
    /\ UNCHANGED <<consts, handler, spins, sp, faultmask, memv, periph, intc, locals, ret>>

\* asm volatile("cpsid f" ::: "memory");
RH_cpsid_f ==
    /\ Running("rh_cpsid_f")
    /\ faultmask' = TRUE
    /\ Emit("cpsid_f", 0)
    /\ pc' = "rh_bdrst_set"
    /\ UNCHANGED <<consts, handler, spins, sp, primask, memv, periph, intc, locals, ret>>

\* RCC->BDCR |= RCC_BDCR_BDRST;
RH_bdrst_set ==
    /\ Running("rh_bdrst_set")
    /\ RCC_BDCR' = RCC_BDCR \cup RCC_BDCR_BDRST
    /\ Emit("RCC_BDCR_set", 0)
    /\ pc' = "rh_bdrst_clr"
    /\ UNCHANGED <<consts, handler, spins, core, memv, SysTick_CTRL, IWDG_KR, SYSCFG_CFGR1,
                   intc, locals, ret>>

\* mutant: the reset bit is never released
RH_bdrst_clr_missing ==
    /\ Running("rh_bdrst_clr")
    /\ Emit("RCC_BDCR_clr", 0)
    /\ pc' = "rh_set_sp"
    /\ UNCHANGED <<consts, handler, spins, core, memv, periph, intc, locals, ret>>

\* RCC->BDCR &= ~RCC_BDCR_BDRST;
RH_bdrst_clr ==
    /\ Running("rh_bdrst_clr")
    /\ RCC_BDCR' = RCC_BDCR \ RCC_BDCR_BDRST
    /\ Emit("RCC_BDCR_clr", 0)
    /\ pc' = "rh_set_sp"
    /\ UNCHANGED <<consts, handler, spins, core, memv, SysTick_CTRL, IWDG_KR, SYSCFG_CFGR1,
                   intc, locals, ret>>

\* ldr r0, =_stack_end ; mov sp, r0
\* mutant: the stack pointer is left as the previous stage set it
RH_set_sp_missing ==
    /\ Running("rh_set_sp")
    /\ Emit("mov_sp", 0)
    /\ pc' = "rh_vt_count"
    /\ UNCHANGED <<consts, handler, spins, core, memv, periph, intc, locals, ret>>

RH_set_sp ==
    /\ Running("rh_set_sp")
    /\ sp' = lds._stack_end
    /\ Emit("mov_sp", 0)
    /\ pc' = "rh_vt_count"
    /\ UNCHANGED <<consts, handler, spins, primask, faultmask, memv, periph, intc, locals, ret>>

\* mutant: the vector table copy runs one word too far
RH_vt_count_extra ==
    /\ Running("rh_vt_count")
    /\ n' = PtrDiffBytes(lds._text_vectortable_end, lds._text_vectortable_start) + WordSize
    /\ d' = lds._ram_vectortable_start
    /\ s' = lds._text_vectortable_start
    /\ pc' = "rh_vt_copy"
    /\ UNCHANGED <<consts, handler, spins, core, memv, periph, intc, i, p, c, cont, log, ret>>

\* uint32_t count_vt = (&_text_vectortable_end - &_text_vectortable_start) * 4;
\* __builtin_memcpy(&_ram_vectortable_start, &_text_vectortable_start, count_vt);
RH_vt_count ==
    /\ Running("rh_vt_count")
    /\ n' = PtrDiffBytes(lds._text_vectortable_end, lds._text_vectortable_start)
    /\ d' = lds._ram_vectortable_start
    /\ s' = lds._text_vectortable_start
    /\ pc' = "rh_vt_copy"
    /\ UNCHANGED <<consts, handler, spins, core, memv, periph, intc, i, p, c, cont, log, ret>>

\* one word of __builtin_memcpy
RH_vt_copy ==
    /\ Running("rh_vt_copy")
    /\ IF n # 0
          THEN /\ mem' = Store(mem, d, mem[s])
               /\ wcount' = Counted(wcount, d)
               /\ d' = d + WordSize
               /\ s' = s + WordSize
               /\ n' = n - WordSize
               /\ pc' = pc
          ELSE /\ pc' = "rh_remap_clr"
               /\ UNCHANGED <<mem, wcount, d, s, n>>
    /\ UNCHANGED <<consts, handler, spins, core, periph, intc, i, p, c, cont, log, ret>>

\* SYSCFG->CFGR1 &= ~(SYSCFG_CFGR1_MEM_MODE_0 | SYSCFG_CFGR1_MEM_MODE_1);
RH_remap_clr ==
    /\ Running("rh_remap_clr")
    /\ SYSCFG_CFGR1' = SYSCFG_CFGR1 \ (SYSCFG_CFGR1_MEM_MODE_0 \cup SYSCFG_CFGR1_MEM_MODE_1)
    /\ Emit("SYSCFG_CFGR1_clr", 0)
    /\ pc' = "rh_remap_set"
    /\ UNCHANGED <<consts, handler, spins, core, memv, SysTick_CTRL, IWDG_KR, RCC_BDCR,
                   intc, locals, ret>>

\* SYSCFG->CFGR1 |= (SYSCFG_CFGR1_MEM_MODE_0 | SYSCFG_CFGR1_MEM_MODE_1);
RH_remap_set ==
    /\ Running("rh_remap_set")
    /\ SYSCFG_CFGR1' = SYSCFG_CFGR1 \cup (SYSCFG_CFGR1_MEM_MODE_0 \cup SYSCFG_CFGR1_MEM_MODE_1)
    /\ Emit("SYSCFG_CFGR1_set", 0)
    /\ pc' = "rh_cpsie_i"
    /\ UNCHANGED <<consts, handler, spins, core, memv, SysTick_CTRL, IWDG_KR, RCC_BDCR,
                   intc, locals, ret>>

\* asm volatile("cpsie i" ::: "memory");
RH_cpsie_i ==
    /\ Running("rh_cpsie_i")
    /\ primask' = FALSE
    /\ Emit("cpsie_i", 0)
    /\ pc' = "rh_cpsie_f"
    /\ UNCHANGED <<consts, handler, spins, sp, faultmask, memv, periph, intc, locals, ret>>

\* asm volatile("cpsie f" ::: "memory");
RH_cpsie_f ==
    /\ Running("rh_cpsie_f")
    /\ faultmask' = FALSE
    /\ Emit("cpsie_f", 0)
    /\ pc' = "rh_jump"
    /\ UNCHANGED <<consts, handler, spins, sp, primask, memv, periph, intc, locals, ret>>

\* mutant: the jump without the load of the stack pointer
RH_jump_keeps_sp ==
    /\ Running("rh_jump")
    /\ Emit("bx_stage_two", 0)
    /\ pc' = "s2_icer"
    /\ i' = 0
    /\ UNCHANGED <<consts, handler, spins, core, memv, periph, intc, d, s, p, c, n, cont, ret>>

\* asm volatile("mov sp, %0\n bx %1" : : "r"(&_stack_end), "r"(reset_handler_stage_two));
RH_jump ==
    /\ Running("rh_jump")
    /\ sp' = lds._stack_end
    /\ Emit("bx_stage_two", 0)
    /\ pc' = "s2_icer"
    /\ i' = 0
    /\ UNCHANGED <<consts, handler, spins, primask, faultmask, memv, periph, intc,
                   d, s, p, c, n, cont, ret>>

(***************************************************************************)
(* boot_memcpy and boot_memset, one loop iteration per step.               *)
(***************************************************************************)
\* mutant: the source pointer is not advanced
boot_memcpy_src_stuck ==
    /\ Running("boot_memcpy")
    /\ IF n # 0
          THEN /\ mem' = Store(mem, d, mem[s])
               /\ wcount' = Counted(wcount, d)
               /\ d' = d + WordSize
               /\ s' = s
               /\ n' = (n - WordSize) % SizeMod
               /\ pc' = pc
          ELSE /\ pc' = cont
               /\ UNCHANGED <<mem, wcount, d, s, n>>
    /\ UNCHANGED <<consts, handler, spins, core, periph, intc, i, p, c, cont, log, ret>>

\* while (n) { *d++ = *s++; n -= sizeof(*d); }
boot_memcpy ==
    /\ Running("boot_memcpy")
    /\ IF n # 0
          THEN /\ mem' = Store(mem, d, mem[s])
               /\ wcount' = Counted(wcount, d)
               /\ d' = d + WordSize
               /\ s' = s + WordSize
               /\ n' = (n - WordSize) % SizeMod
               /\ pc' = pc
          ELSE /\ pc' = cont
               /\ UNCHANGED <<mem, wcount, d, s, n>>
    /\ UNCHANGED <<consts, handler, spins, core, periph, intc, i, p, c, cont, log, ret>>

\* mutant: the fill pointer does not advance
boot_memset_stuck ==
    /\ Running("boot_memset")
    /\ IF n # 0
          THEN /\ mem' = Store(mem, p, c)
               /\ wcount' = Counted(wcount, p)
               /\ p' = p
               /\ n' = (n - WordSize) % SizeMod
               /\ pc' = pc
          ELSE /\ pc' = cont
               /\ UNCHANGED <<mem, wcount, p, n>>
    /\ UNCHANGED <<consts, handler, spins, core, periph, intc, i, d, s, c, cont, log, ret>>

\* mutant: the count is tested as a signed value, "while (n > 0)"
boot_memset_signed ==
    /\ Running("boot_memset")
    /\ IF n # 0 /\ n < SizeMod \div 2
          THEN /\ mem' = Store(mem, p, c)
               /\ wcount' = Counted(wcount, p)
               /\ p' = p + WordSize
               /\ n' = (n - WordSize) % SizeMod
               /\ pc' = pc
          ELSE /\ pc' = cont
               /\ UNCHANGED <<mem, wcount, p, n>>
    /\ UNCHANGED <<consts, handler, spins, core, periph, intc, i, d, s, c, cont, log, ret>>

\* while (n) { *p++ = c; n -= sizeof(*p); }
boot_memset ==
    /\ Running("boot_memset")
    /\ IF n # 0
          THEN /\ mem' = Store(mem, p, c)
               /\ wcount' = Counted(wcount, p)
               /\ p' = p + WordSize
               /\ n' = (n - WordSize) % SizeMod
               /\ pc' = pc
          ELSE /\ pc' = cont
               /\ UNCHANGED <<mem, wcount, p, n>>
    /\ UNCHANGED <<consts, handler, spins, core, periph, intc, i, d, s, c, cont, log, ret>>

(***************************************************************************)
(* reset_handler_stage_two.                                                *)
(***************************************************************************)
\* NVIC->ICER[i] = 0xFFFFFFFF;
S2_icer ==
    /\ Running("s2_icer")
    /\ NVIC_en' = NVIC_en \ {i}
    /\ Emit("ICER", i)
    /\ pc' = "s2_icer_dsb"
    /\ UNCHANGED <<consts, handler, spins, core, memv, periph, NVIC_pend, NVIC_IP, SCB_pend,
                   SCB_SHP, locals, ret>>

\* mutant: no barrier between the ICER and the ICPR write
S2_icer_dsb_missing ==
    /\ Running("s2_icer_dsb")
    /\ pc' = "s2_icpr"
    /\ UNCHANGED <<consts, handler, spins, core, memv, periph, intc, locals, log, ret>>

\* __DSB();
S2_icer_dsb ==
    /\ Running("s2_icer_dsb")
    /\ Emit("DSB", 0)
    /\ pc' = "s2_icpr"
    /\ UNCHANGED <<consts, handler, spins, core, memv, periph, intc, locals, ret>>

\* NVIC->ICPR[i] = 0xFFFFFFFF;  i++  (i < ARRAY_SIZE(NVIC->ICER))
S2_icpr ==
    /\ Running("s2_icpr")
    /\ NVIC_pend' = NVIC_pend \ {i}
    /\ Emit("ICPR", i)
    /\ IF i + 1 < NGroups
          THEN i' = i + 1 /\ pc' = "s2_icer"
          ELSE i' = 0 /\ pc' = "s2_ip"
    /\ UNCHANGED <<consts, handler, spins, core, memv, periph, NVIC_en, NVIC_IP, SCB_pend,
                   SCB_SHP, d, s, p, c, n, cont, ret>>

\* for (i = 0; i < ARRAY_SIZE(NVIC->IP); i++) NVIC->IP[i] = 0;
S2_ip ==
    /\ Running("s2_ip")
    /\ NVIC_IP' = [NVIC_IP EXCEPT ![i] = 0]
    /\ Emit("IP", i)
    /\ IF i + 1 < NIP
          THEN i' = i + 1 /\ pc' = "s2_ip"
          ELSE i' = i + 1 /\ pc' = "s2_systick"
    /\ UNCHANGED <<consts, handler, spins, core, memv, periph, NVIC_en, NVIC_pend, SCB_pend,
                   SCB_SHP, d, s, p, c, n, cont, ret>>

\* SysTick->CTRL = SysTick_CTRL_CLKSOURCE_Msk;
\* mutant: the clock-source bit is or-ed in, the enable bits are kept
S2_systick_or ==
    /\ Running("s2_systick")
    /\ SysTick_CTRL' = SysTick_CTRL \cup SysTick_CTRL_CLKSOURCE_Msk
    /\ Emit("SysTick_CTRL", 0)
    /\ pc' = "s2_systick_dsb"
    /\ UNCHANGED <<consts, handler, spins, core, memv, IWDG_KR, RCC_BDCR, SYSCFG_CFGR1,
                   intc, locals, ret>>

S2_systick ==
    /\ Running("s2_systick")
    /\ SysTick_CTRL' = SysTick_CTRL_CLKSOURCE_Msk
    /\ Emit("SysTick_CTRL", 0)
    /\ pc' = "s2_systick_dsb"
    /\ UNCHANGED <<consts, handler, spins, core, memv, IWDG_KR, RCC_BDCR, SYSCFG_CFGR1,
                   intc, locals, ret>>

\* __DSB();
S2_systick_dsb ==
    /\ Running("s2_systick_dsb")
    /\ Emit("DSB", 0)
    /\ pc' = "s2_icsr"
    /\ UNCHANGED <<consts, handler, spins, core, memv, periph, intc, locals, ret>>

\* SCB->ICSR = SCB_ICSR_PENDSVCLR_Msk | SCB_ICSR_PENDSTCLR_Msk;
S2_icsr ==
    /\ Running("s2_icsr")
    /\ SCB_pend' = SCB_pend \ (SCB_ICSR_PENDSVCLR_Msk \cup SCB_ICSR_PENDSTCLR_Msk)
    /\ Emit("ICSR", 0)
    /\ i' = 0
    /\ pc' = "s2_shp"
    /\ UNCHANGED <<consts, handler, spins, core, memv, periph, NVIC_en, NVIC_pend, NVIC_IP,
                   SCB_SHP, d, s, p, c, n, cont, ret>>

\* for (i = 0; i < ARRAY_SIZE(SCB->SHP); i++) SCB->SHP[i] = 0;
S2_shp ==
    /\ Running("s2_shp")
    /\ SCB_SHP' = [SCB_SHP EXCEPT ![i] = 0]
    /\ Emit("SHP", i)
    /\ IF i + 1 < NSHP
          THEN i' = i + 1 /\ pc' = "s2_shp"
          ELSE i' = i + 1 /\ pc' = "s2_dsb"
    /\ UNCHANGED <<consts, handler, spins, core, memv, periph, NVIC_en, NVIC_pend, NVIC_IP,
                   SCB_pend, d, s, p, c, n, cont, ret>>

\* __DSB();
S2_dsb ==
    /\ Running("s2_dsb")
    /\ Emit("DSB", 0)
    /\ pc' = "s2_isb"
    /\ UNCHANGED <<consts, handler, spins, core, memv, periph, intc, locals, ret>>

\* mutant: no instruction barrier before the unmask
S2_isb_missing ==
    /\ Running("s2_isb")
    /\ pc' = "s2_enable_irq"
    /\ UNCHANGED <<consts, handler, spins, core, memv, periph, intc, locals, log, ret>>

\* __ISB();
S2_isb ==
    /\ Running("s2_isb")
    /\ Emit("ISB", 0)
    /\ pc' = "s2_enable_irq"
    /\ UNCHANGED <<consts, handler, spins, core, memv, periph, intc, locals, ret>>

\* __enable_irq();
S2_enable_irq ==
    /\ Running("s2_enable_irq")
    /\ primask' = FALSE
    /\ Emit("cpsie_i", 0)
    /\ pc' = "s2_data"
    /\ UNCHANGED <<consts, handler, spins, sp, faultmask, memv, periph, intc, locals, ret>>

\* mutant: destination and source of the data copy swapped
S2_data_swapped ==
    /\ Running("s2_data")
    /\ n' = PtrDiffBytes(lds._data_end, lds._data_start)
    /\ d' = lds._data_flash
    /\ s' = lds._data_start
    /\ cont' = "s2_bss"
    /\ pc' = "boot_memcpy"
    /\ UNCHANGED <<consts, handler, spins, core, memv, periph, intc, i, p, c, log, ret>>

\* uint32_t count = (&_data_end - &_data_start) * 4;
\* boot_memcpy(&_data_start, &_data_flash, count);
S2_data ==
    /\ Running("s2_data")
    /\ n' = PtrDiffBytes(lds._data_end, lds._data_start)
    /\ d' = lds._data_start
    /\ s' = lds._data_flash
    /\ cont' = "s2_bss"
    /\ pc' = "boot_memcpy"
    /\ UNCHANGED <<consts, handler, spins, core, memv, periph, intc, i, p, c, log, ret>>

\* mutant: the fill starts at the data section instead of the bss
S2_bss_from_data ==
    /\ Running("s2_bss")
    /\ n' = PtrDiffBytes(lds._bss_end, lds._bss_start)
    /\ p' = lds._data_start
    /\ c' = 0
    /\ cont' = "s2_barrier"
    /\ pc' = "boot_memset"
    /\ UNCHANGED <<consts, handler, spins, core, memv, periph, intc, i, d, s, log, ret>>

\* boot_memset(&_bss_start, 0, (&_bss_end - &_bss_start) * 4);
S2_bss ==
    /\ Running("s2_bss")
    /\ n' = PtrDiffBytes(lds._bss_end, lds._bss_start)
    /\ p' = lds._bss_start
    /\ c' = 0
    /\ cont' = "s2_barrier"
    /\ pc' = "boot_memset"
    /\ UNCHANGED <<consts, handler, spins, core, memv, periph, intc, i, d, s, log, ret>>

\* mutant: no ordering barrier before the call
S2_barrier_missing ==
    /\ Running("s2_barrier")
    /\ pc' = "s2_call_main"
    /\ UNCHANGED <<consts, handler, spins, core, memv, periph, intc, locals, log, ret>>

\* barrier();
S2_barrier ==
    /\ Running("s2_barrier")
    /\ Emit("barrier", 0)
    /\ pc' = "s2_call_main"
    /\ UNCHANGED <<consts, handler, spins, core, memv, periph, intc, locals, ret>>

\* armcm_main();
S2_call_main ==
    /\ Running("s2_call_main")
    /\ Emit("armcm_main", 0)
    /\ pc' = "armcm_main"
    /\ UNCHANGED <<consts, handler, spins, core, memv, periph, intc, locals, ret>>

\* armcm_main() returns, against its contract
ArmcmMainReturns ==
    /\ Running("armcm_main")
    /\ pc' = "s2_halt"
    /\ spins' = 0
    /\ UNCHANGED <<consts, handler, core, memv, periph, intc, locals, log, ret>>

\* mutant: no halt loop, the function runs off its end
S2_halt_returns ==
    /\ Running("s2_halt")
    /\ pc' = "returned"
    /\ UNCHANGED <<consts, handler, spins, core, memv, periph, intc, locals, log, ret>>

\* for (;;) ;
S2_halt ==
    /\ Running("s2_halt")
    /\ spins' = IF spins < MaxSpin THEN spins + 1 ELSE spins
    /\ UNCHANGED <<consts, pc, handler, core, memv, periph, intc, locals, log, ret>>

(***************************************************************************)
(* Exceptions.  The SysTick timer, while enabled with its interrupt, may   *)
(* pend its exception at any time.  A pending exception is taken as soon   *)
(* as core interrupts are unmasked (a user interrupt also needs its line   *)
(* enabled); the handler of this file is DefaultHandler.                   *)
(***************************************************************************)
SysTickFire ==
    /\ SysTick_CTRL_ENABLE_Msk \subseteq SysTick_CTRL
    /\ SysTick_CTRL_TICKINT_Msk \subseteq SysTick_CTRL
    /\ "PENDST" \notin SCB_pend
    /\ SCB_pend' = SCB_pend \cup {"PENDST"}
    /\ UNCHANGED <<consts, ctl, core, memv, periph, NVIC_en, NVIC_pend, NVIC_IP, SCB_SHP,
                   locals, log, ret>>

ExceptionPending == (NVIC_en \cap NVIC_pend) # {} \/ SCB_pend # {}

IrqEntry ==
    /\ handler = "none"
    /\ ~primask
    /\ ExceptionPending
    /\ handler' = "DefaultHandler"
    /\ spins' = 0
    /\ UNCHANGED <<consts, pc, core, memv, periph, intc, locals, log, ret>>

\* mutant: the handler returns to the interrupted flow
DefaultHandler_returns ==
    /\ handler = "DefaultHandler"
    /\ handler' = "none"
    /\ UNCHANGED <<consts, pc, spins, core, memv, periph, intc, locals, log, ret>>

\* for (;;) ;
DefaultHandler ==
    /\ handler = "DefaultHandler"
    /\ spins' = IF spins < MaxSpin THEN spins + 1 ELSE spins
    /\ UNCHANGED <<consts, pc, handler, core, memv, periph, intc, locals, log, ret>>

(***************************************************************************)
(* Dynamic memory range.                                                   *)
(***************************************************************************)
\* mutant: the start of the bss instead of its end
dynmem_start_of_bss == lds._bss_start

\* return &_bss_end;
dynmem_start == lds._bss_end

\* return &_stack_start;
dynmem_end == lds._stack_start

CallDynmemStart ==
    /\ ret' = <<"dynmem_start", dynmem_start>>
    /\ UNCHANGED <<consts, ctl, core, memv, periph, intc, locals, log>>

CallDynmemEnd ==
    /\ ret' = <<"dynmem_end", dynmem_end>>
    /\ UNCHANGED <<consts, ctl, core, memv, periph, intc, locals, log>>

(***************************************************************************)
(* The boot run.                                                           *)
(***************************************************************************)
\* While BDRST is held set by the write of line 138 the backup domain is in
\* reset: its registers, the other fields of RCC->BDCR among them, take their
\* power-on value (all clear).
BackupDomainReset ==
    /\ Running("rh_bdrst_clr")
    /\ RCC_BDCR_BDRST \subseteq RCC_BDCR
    /\ RCC_BDCR # RCC_BDCR_BDRST
    /\ RCC_BDCR' = RCC_BDCR_BDRST
    /\ UNCHANGED <<consts, ctl, core, memv, SysTick_CTRL, IWDG_KR, SYSCFG_CFGR1, intc,
                   locals, log, ret>>

Next ==
    \/ RH_disable_irq \/ RH_systick \/ RH_iwdg \/ RH_cpsid_i \/ RH_cpsid_f
    \/ RH_bdrst_set \/ RH_bdrst_clr \/ RH_set_sp \/ RH_vt_count \/ RH_vt_copy
    \/ RH_remap_clr \/ RH_remap_set \/ RH_cpsie_i \/ RH_cpsie_f \/ RH_jump
    \/ S2_icer \/ S2_icer_dsb \/ S2_icpr \/ S2_ip \/ S2_systick \/ S2_systick_dsb
    \/ S2_icsr \/ S2_shp \/ S2_dsb \/ S2_isb \/ S2_enable_irq \/ S2_data \/ S2_bss
    \/ boot_memcpy \/ boot_memset \/ S2_barrier \/ S2_call_main
    \/ ArmcmMainReturns \/ S2_halt
    \/ SysTickFire \/ IrqEntry \/ DefaultHandler \/ BackupDomainReset

Spec == Init /\ [][Next]_vars

(***************************************************************************)
(* The boot run with the dynmem queries evaluated at any point of it, over *)
(* every layout.                                                           *)
(***************************************************************************)
\* the memory slice, and one entry with a backup-domain field set
InitQuery == Reset(EntryMemory \cup {[DefaultEntry EXCEPT !.bdcr = {"LSEON"}]})

NextQuery == Next \/ CallDynmemStart \/ CallDynmemEnd

SpecQuery == InitQuery /\ [][NextQuery]_vars

(***************************************************************************)
(* The copy and fill primitives on their own: one call of boot_memcpy or   *)
(* boot_memset with destination, source, fill value and length drawn from  *)
(* the word-aligned, non-overlapping ranges of the address space.          *)
(***************************************************************************)
PrimCalls ==
    {a \in [fn : {"boot_memcpy", "boot_memset"}, dest : Addrs, src : Addrs,
            c : {0, 1, Poison}, n : {WordSize * k : k \in 0 .. MaxN}, pat : RamPatterns] :
        /\ a.dest + a.n <= MemTop
        /\ a.src + a.n <= MemTop
        /\ a.fn = "boot_memcpy" => (a.c = 0 /\ (a.src + a.n <= a.dest \/ a.dest + a.n <= a.src))
        /\ a.fn = "boot_memset" => a.src = 0}

PrimReset(Calls) ==
    /\ config = FALSE
    /\ lds = DefaultLayout
    /\ \E a \in Calls :
          /\ entry = a
          /\ pc = a.fn
          /\ mem = ResetMemory(a.pat)
          /\ n = a.n
          /\ d = IF a.fn = "boot_memcpy" THEN a.dest ELSE 0
          /\ s = IF a.fn = "boot_memcpy" THEN a.src ELSE 0
          /\ p = IF a.fn = "boot_memset" THEN a.dest ELSE 0
          /\ c = IF a.fn = "boot_memset" THEN a.c ELSE 0
    /\ cont = "done"
    /\ wcount = [a \in Addrs |-> 0]
    /\ handler = "none" /\ spins = 0 /\ i = 0
    /\ sp = DefaultLayout._stack_end /\ primask = FALSE /\ faultmask = FALSE
    /\ SysTick_CTRL = SysTick_CTRL_CLKSOURCE_Msk /\ IWDG_KR = 0
    /\ RCC_BDCR = {} /\ SYSCFG_CFGR1 = {}
    /\ NVIC_en = {} /\ NVIC_pend = {} /\ SCB_pend = {}
    /\ NVIC_IP = [k \in IPIdx |-> 0] /\ SCB_SHP = [k \in SHPIdx |-> 0]
    /\ log = << >>
    /\ ret = <<"none", 0>>

InitPrim == PrimReset(PrimCalls)

NextPrim == boot_memcpy \/ boot_memset

SpecPrim == InitPrim /\ [][NextPrim]_vars

(***************************************************************************)
(* Positions of the boot flow, in program order.                           *)
(***************************************************************************)
Order ==
    <<"ResetHandler", "rh_systick", "rh_iwdg", "rh_cpsid_i", "rh_cpsid_f", "rh_bdrst_set",
      "rh_bdrst_clr", "rh_set_sp", "rh_vt_count", "rh_vt_copy", "rh_remap_clr",
      "rh_remap_set", "rh_cpsie_i", "rh_cpsie_f", "rh_jump",
      "s2_icer", "s2_icer_dsb", "s2_icpr", "s2_ip", "s2_systick", "s2_systick_dsb",
      "s2_icsr", "s2_shp", "s2_dsb", "s2_isb", "s2_enable_irq", "s2_data", "boot_memcpy",
      "s2_bss", "boot_memset", "s2_barrier", "s2_call_main", "armcm_main", "s2_halt">>

Rank(l) == CHOOSE k \in 1 .. Len(Order) : Order[k] = l

\* the flow is at position a, or later, and not past position b
Within(a, b) == Rank(a) <= Rank(pc) /\ Rank(pc) <= Rank(b)

StageOne == {Order[k] : k \in 1 .. Rank("rh_jump")}
StageTwo == {Order[k] : k \in Rank("s2_icer") .. Len(Order)}

WordsOf(start, end) == {a \in Addrs : start <= a /\ a < end}

(***************************************************************************)
(* C1: in both configurations and for every stack pointer at entry, the    *)
(* only way out of ResetHandler is the transfer to                         *)
(* reset_handler_stage_two, and at that transfer sp = _stack_end.          *)
(***************************************************************************)
C1_StackAtTransfer ==
    [][(pc \in StageOne /\ pc' \notin StageOne)
          => (pc = "rh_jump" /\ pc' = "s2_icer" /\ sp' = lds._stack_end)]_vars

C1_Witness ==
    /\ pc = "s2_icer" /\ i = 0 /\ NVIC_en = entry.nvic_en
    /\ entry.sp # lds._stack_end
    /\ sp = lds._stack_end

(***************************************************************************)
(* C2: after the data copy of stage two, and up to the call of armcm_main, *)
(* every word of [_data_start, _data_end) equals the word at the same      *)
(* offset from _data_flash, which is the word of the flash image.          *)
(***************************************************************************)
C2_DataCopied ==
    Within("s2_bss", "armcm_main") =>
        \A a \in WordsOf(lds._data_start, lds._data_end) :
            LET f == lds._data_flash + (a - lds._data_start)
            IN  mem[a] = mem[f] /\ mem[f] = FlashWord(f)

C2_Witness ==
    /\ pc = "armcm_main"
    /\ lds._data_end - lds._data_start = WordSize * MaxData
    /\ entry.pat = "poison"
    /\ \A a \in WordsOf(lds._data_start, lds._data_end) : mem[a] # Poison

(***************************************************************************)
(* C3: after the bss fill of stage two, and up to the call of armcm_main,  *)
(* every word of [_bss_start, _bss_end) is zero, whatever RAM held.        *)
(***************************************************************************)
C3_BssZero ==
    Within("s2_barrier", "armcm_main") =>
        \A a \in WordsOf(lds._bss_start, lds._bss_end) : mem[a] = 0

C3_Witness ==
    /\ pc = "armcm_main"
    /\ lds._bss_end - lds._bss_start = WordSize * MaxBss
    /\ entry.pat = "addr"
    /\ \A a \in WordsOf(lds._bss_start, lds._bss_end) : mem[a] = 0

(***************************************************************************)
(* C4: every write of ICPR[g] directly follows a DSB that directly follows *)
(* the write of ICER[g]; once the loop is done every group g has had its   *)
(* ICER and ICPR written, so no line is enabled or pending.                *)
(***************************************************************************)
C4_IcerBarrierIcpr ==
    /\ \A k \in 1 .. Len(log) :
          log[k][1] = "ICPR" =>
              /\ k >= 3
              /\ log[k - 1] = <<"DSB", 0>>
              /\ log[k - 2] = <<"ICER", log[k][2]>>
    /\ Within("s2_ip", "s2_halt") =>
          /\ \A g \in Groups : \E k \in 1 .. Len(log) : log[k] = <<"ICPR", g>>
          /\ NVIC_en = {}
          /\ NVIC_pend = {}

C4_Witness ==
    /\ pc = "s2_ip" /\ i = 0
    /\ entry.nvic_en = Groups /\ entry.nvic_pend = Groups
    /\ NVIC_en = {} /\ NVIC_pend = {}

(***************************************************************************)
(* C5: with the RAM vector table configured, after stage one the RAM table *)
(* holds the words of [_text_vectortable_start, _text_vectortable_end),    *)
(* stage one has stored to those RAM words and to no other word, and       *)
(* CFGR1 has both memory-mode bits set and its other bits as at entry.     *)
(***************************************************************************)
VtBytes == lds._text_vectortable_end - lds._text_vectortable_start

C5_VectorTableRelocated ==
    (config /\ Within("rh_cpsie_i", "s2_data")) =>
        /\ \A a \in Addrs :
              IF a \in WordsOf(lds._ram_vectortable_start, lds._ram_vectortable_start + VtBytes)
                 THEN /\ mem[a] = mem[lds._text_vectortable_start
                                         + (a - lds._ram_vectortable_start)]
                      /\ wcount[a] = 1
                 ELSE /\ mem[a] = ResetMemory(entry.pat)[a]
                      /\ wcount[a] = 0
        /\ (SYSCFG_CFGR1_MEM_MODE_0 \cup SYSCFG_CFGR1_MEM_MODE_1) \subseteq SYSCFG_CFGR1
        /\ SYSCFG_CFGR1 \ (SYSCFG_CFGR1_MEM_MODE_0 \cup SYSCFG_CFGR1_MEM_MODE_1)
              = entry.cfgr1 \ (SYSCFG_CFGR1_MEM_MODE_0 \cup SYSCFG_CFGR1_MEM_MODE_1)

C5_Witness ==
    /\ config /\ pc = "s2_icer" /\ i = 0 /\ NVIC_en = entry.nvic_en
    /\ VtBytes = WordSize * MaxVt
    /\ "MEM_MODE_1" \notin entry.cfgr1
    /\ "PA11_PA12_RMP" \in SYSCFG_CFGR1
    /\ "MEM_MODE_1" \in SYSCFG_CFGR1

(***************************************************************************)
(* C6: reset_handler_stage_two never returns: its flow stays in stage two, *)
(* armcm_main is left only into the halt loop, and a step taken in the     *)
(* halt loop stays there and changes no register and no memory word.       *)
(***************************************************************************)
C6_StageTwoNeverReturns ==
    [][/\ pc \in StageTwo => pc' \in StageTwo
       /\ pc = "armcm_main" => pc' \in {"armcm_main", "s2_halt"}
       /\ pc = "s2_halt" => (pc' = "s2_halt" /\ hw' = hw /\ wcount' = wcount /\ log' = log)]_vars

C6_Witness ==
    /\ pc = "s2_halt" /\ handler = "none" /\ spins = MaxSpin
    /\ Len(log) > 0 /\ log[Len(log)] = <<"armcm_main", 0>>

(***************************************************************************)
(* C7 as stated: core interrupts are masked at every position of stage one *)
(* and stage two after the entry instruction and up to the call of         *)
(* armcm_main, except (RAM vector table configured) between the cpsie i of *)
(* stage one and the jump to stage two.                                    *)
(***************************************************************************)
C7_MaskedUntilMain ==
    (Within("rh_systick", "s2_call_main") /\ ~(config /\ Within("rh_cpsie_f", "rh_jump")))
        => primask

(***************************************************************************)
(* C7 amended: core interrupts are masked from the entry instruction up to *)
(* the first unmask, which is the cpsie i of stage one when the RAM vector *)
(* table is configured and the __enable_irq() of stage two otherwise; from *)
(* that unmask on, through the data copy, the bss fill and the call of     *)
(* armcm_main, they are unmasked.                                          *)
(***************************************************************************)
FirstUnmask == IF config THEN "rh_cpsie_i" ELSE "s2_enable_irq"

C7_MaskedUntilFirstUnmask ==
    /\ (Within("rh_systick", FirstUnmask)) => primask
    /\ (Rank(pc) > Rank(FirstUnmask) /\ Within("rh_systick", "armcm_main")) => ~primask

C7_Witness ==
    /\ ~config /\ pc = "boot_memcpy" /\ handler = "none"
    /\ n # 0
    /\ ~primask /\ ~entry.primask

(***************************************************************************)
(* C8: dynmem_start() returns _bss_end, dynmem_end() returns _stack_start, *)
(* dynmem_start() <= dynmem_end(), and a query changes no register, no     *)
(* memory word and not the position of the boot flow, wherever in the boot *)
(* run it is made.                                                         *)
(***************************************************************************)
C8_DynmemQueries ==
    /\ [](/\ ret[1] = "dynmem_start" => ret[2] = lds._bss_end
          /\ ret[1] = "dynmem_end" => ret[2] = lds._stack_start
          /\ dynmem_start <= dynmem_end)
    /\ [][ret' # ret => (hw' = hw /\ wcount' = wcount /\ log' = log /\ ctl' = ctl)]_vars

C8_Witness ==
    /\ ret = <<"dynmem_start", lds._bss_end>>
    /\ lds._bss_start < lds._bss_end
    /\ lds._bss_end < lds._stack_start
    /\ pc = "boot_memset" /\ n # 0

(***************************************************************************)
(* C9: once DefaultHandler is entered it is never left, the preempted flow *)
(* does not move, and a step of its loop changes no register and no memory *)
(* word.                                                                   *)
(***************************************************************************)
C9_DefaultHandlerHalts ==
    [][handler = "DefaultHandler" =>
          /\ handler' = "DefaultHandler"
          /\ pc' = pc
          /\ wcount' = wcount /\ log' = log
          /\ spins' # spins => hw' = hw]_vars

C9_Witness ==
    /\ handler = "DefaultHandler" /\ spins = MaxSpin
    /\ pc = "rh_cpsie_f"

(***************************************************************************)
(* C10: for a length n that is a multiple of 4 (0 included) and            *)
(* word-aligned, non-overlapping ranges, boot_memcpy leaves at dest the    *)
(* n/4 words src held, boot_memset leaves n/4 words equal to c, each word  *)
(* of [dest, dest+n) is stored once and no other word is stored to.        *)
(***************************************************************************)
C10_CopyFillExact ==
    pc = "done" =>
        \A a \in Addrs :
            LET inside == entry.dest <= a /\ a < entry.dest + entry.n
                m0 == ResetMemory(entry.pat)
            IN  /\ wcount[a] = IF inside THEN 1 ELSE 0
                /\ mem[a] = IF ~inside THEN m0[a]
                            ELSE IF entry.fn = "boot_memcpy"
                                    THEN m0[entry.src + (a - entry.dest)]
                                    ELSE entry.c

C10_Witness ==
    /\ pc = "done" /\ entry.fn = "boot_memcpy"
    /\ entry.n = WordSize * MaxN
    /\ entry.pat = "addr"
    /\ \A k \in 0 .. (MaxN - 1) :
          mem[entry.dest + WordSize * k] = ResetMemory("addr")[entry.src + WordSize * k]

(***************************************************************************)
(* C11 as stated: with the RAM vector table configured, whatever enable    *)
(* and pending state a bootloader left in the interrupt controller, no     *)
(* handler is entered between the cpsie i of stage one and the point where *)
(* stage two has disabled every interrupt line (no PendSV or SysTick       *)
(* exception being pending, so that the handler is the one of a line).     *)
(***************************************************************************)
C11_NoHandlerInWindow ==
    ~(config /\ handler # "none" /\ SCB_pend = {} /\ Within("rh_cpsie_f", "s2_icpr"))

(***************************************************************************)
(* The accesses of stage two before its unmask, in program order.          *)
(***************************************************************************)
IcerSeq ==
    [k \in 1 .. (3 * NGroups) |->
        LET g == (k - 1) \div 3
            r == (k - 1) % 3
        IN  IF r = 0 THEN <<"ICER", g>> ELSE IF r = 1 THEN <<"DSB", 0>> ELSE <<"ICPR", g>>]

IpSeq == [k \in 1 .. NIP |-> <<"IP", k - 1>>]

ShpSeq == [k \in 1 .. NSHP |-> <<"SHP", k - 1>>]

S2Prologue ==
    IcerSeq \o IpSeq \o << <<"SysTick_CTRL", 0>>, <<"DSB", 0>>, <<"ICSR", 0>> >>
            \o ShpSeq \o << <<"DSB", 0>>, <<"ISB", 0>> >>

\* the accesses made since the jump to stage two
SinceJump ==
    IF \E j \in 1 .. Len(log) : log[j] = <<"bx_stage_two", 0>>
       THEN LET j == CHOOSE x \in 1 .. Len(log) : log[x] = <<"bx_stage_two", 0>>
            IN  SubSeq(log, j + 1, Len(log))
       ELSE << >>

(***************************************************************************)
(* C12: stage two unmasks core interrupts only after, in this order, every *)
(* ICER/ICPR group was written, every user priority register zeroed,       *)
(* SysTick CTRL written with only the clock-source bit, PendSV and SysTick *)
(* pending cleared through ICSR, every system handler priority zeroed, and *)
(* a DSB followed by an ISB issued.                                        *)
(***************************************************************************)
C12_UnmaskAfterCleanup ==
    /\ Within("s2_icer", "s2_enable_irq") =>
          /\ <<"cpsie_i", 0>> \notin {SinceJump[k] : k \in 1 .. Len(SinceJump)}
          /\ Len(SinceJump) <= Len(S2Prologue)
          /\ SinceJump = SubSeq(S2Prologue, 1, Len(SinceJump))
    /\ Within("s2_data", "armcm_main") =>
          /\ Len(SinceJump) > Len(S2Prologue)
          /\ SubSeq(SinceJump, 1, Len(S2Prologue) + 1) = S2Prologue \o << <<"cpsie_i", 0>> >>
          /\ NVIC_en = {} /\ NVIC_pend = {} /\ SCB_pend = {}
          /\ \A k \in IPIdx : NVIC_IP[k] = 0
          /\ \A k \in SHPIdx : SCB_SHP[k] = 0
          /\ SysTick_CTRL = SysTick_CTRL_CLKSOURCE_Msk

C12_Witness ==
    /\ pc = "s2_data" /\ handler = "none" /\ ~primask
    /\ entry.primask
    /\ entry.nvic_en # {} /\ entry.nvic_pend # {} /\ entry.scb_pend # {}
    /\ "TICKINT" \in entry.ctrl
    /\ SinceJump = S2Prologue \o << <<"cpsie_i", 0>> >>

Occurrences(op, idx) == Cardinality({k \in 1 .. Len(log) : log[k] = <<op, idx>>})

DataWords == WordsOf(lds._data_start, lds._data_end)
BssWords == WordsOf(lds._bss_start, lds._bss_end)

(***************************************************************************)
(* C13: armcm_main is called at most once in a boot run, and only when the *)
(* data copy has completed, then the bss fill, then the barrier was        *)
(* issued; stage two is entered only by the jump of stage one, and the     *)
(* application only by the call of stage two.                              *)
(***************************************************************************)
C13_HandOffOrder ==
    /\ [](/\ Occurrences("armcm_main", 0) <= 1
          /\ Occurrences("bx_stage_two", 0) <= 1
          /\ \A k \in 1 .. Len(log) :
                log[k] = <<"armcm_main", 0>> => (k > 1 /\ log[k - 1] = <<"barrier", 0>>)
          /\ (\E a \in BssWords : wcount[a] > 0) =>
                (\A a \in DataWords : wcount[a] = 1) /\ Within("boot_memset", "s2_halt")
          /\ Occurrences("barrier", 0) > 0 =>
                /\ \A a \in DataWords \cup BssWords : wcount[a] = 1
                /\ C2_DataCopied /\ C3_BssZero
                /\ Within("s2_call_main", "s2_halt"))
    /\ [][/\ (pc' = "armcm_main" /\ pc # "armcm_main") => pc = "s2_call_main"
          /\ (pc \notin StageTwo /\ pc' \in StageTwo) => (pc = "rh_jump" /\ pc' = "s2_icer")]_vars

C13_Witness ==
    /\ pc = "armcm_main" /\ handler = "none"
    /\ DataWords # {} /\ BssWords # {}
    /\ Occurrences("armcm_main", 0) = 1
    /\ log[Len(log) - 1] = <<"barrier", 0>>

(***************************************************************************)
(* C14: in the RAM-vector configuration stage one writes the refresh key   *)
(* to the watchdog key register if and only if the watchdog is active at   *)
(* entry, and the write precedes the backup-domain reset pulse, the vector *)
(* table copy and the remap.  The code decides on the value read from the  *)
(* key register, not on the watchdog's activity.                           *)
(***************************************************************************)
C14_FeedIffActive ==
    (config /\ Within("rh_cpsid_i", "s2_halt")) =>
        /\ (Occurrences("IWDG_KR", 0) = 1) <=> entry.wdg
        /\ \A k \in 1 .. Len(log) : log[k] = <<"IWDG_KR", 0>> =>
              /\ IWDG_KR = IWDG_KEY_RELOAD
              /\ \A j \in 1 .. k :
                    log[j][1] \notin {"RCC_BDCR_set", "RCC_BDCR_clr",
                                      "SYSCFG_CFGR1_clr", "SYSCFG_CFGR1_set"}

RamVtWords == WordsOf(lds._ram_vectortable_start, lds._ram_vectortable_start + VtBytes)

VtCopied ==
    \A a \in RamVtWords :
        /\ wcount[a] = 1
        /\ mem[a] = mem[lds._text_vectortable_start + (a - lds._ram_vectortable_start)]

\* the register writes and mask instructions of stage one, in program order
StageOneSeq ==
    <<<<"cpsid_i", 0>>, <<"SysTick_CTRL", 0>>>>
    \o (IF entry.kr # 0 THEN <<<<"IWDG_KR", 0>>>> ELSE <<>>)
    \o <<<<"cpsid_i", 0>>, <<"cpsid_f", 0>>, <<"RCC_BDCR_set", 0>>, <<"RCC_BDCR_clr", 0>>,
         <<"mov_sp", 0>>, <<"SYSCFG_CFGR1_clr", 0>>, <<"SYSCFG_CFGR1_set", 0>>,
         <<"cpsie_i", 0>>, <<"cpsie_f", 0>>, <<"bx_stage_two", 0>>>>

RemapToSram == (SYSCFG_CFGR1_MEM_MODE_0 \cup SYSCFG_CFGR1_MEM_MODE_1) \subseteq SYSCFG_CFGR1

(***************************************************************************)
(* C15: in the RAM-vector configuration the steps of stage one happen in   *)
(* program order; whenever core interrupts are unmasked inside stage one   *)
(* (after its first instruction) the stack pointer is _stack_end, the RAM  *)
(* vector table is a complete copy of the flash table and the remap field  *)
(* selects SRAM; the remap is written only when the copy is complete.      *)
(***************************************************************************)
C15_StageOneOrder ==
    config =>
        /\ LET m == IF Len(log) < Len(StageOneSeq) THEN Len(log) ELSE Len(StageOneSeq)
           IN  SubSeq(log, 1, m) = SubSeq(StageOneSeq, 1, m)
        /\ (pc \in StageOne \ {"ResetHandler"} /\ ~primask) =>
              /\ sp = lds._stack_end
              /\ VtCopied
              /\ RemapToSram
        /\ Occurrences("SYSCFG_CFGR1_set", 0) > 0 => VtCopied
        /\ (pc = "rh_vt_copy" /\ n # 0) => Occurrences("SYSCFG_CFGR1_set", 0) = 0

C15_Witness ==
    /\ config /\ pc = "rh_cpsie_f" /\ ~primask /\ handler = "none"
    /\ VtBytes = WordSize * MaxVt
    /\ entry.sp # lds._stack_end
    /\ "MEM_MODE_1" \notin entry.cfgr1
    /\ RemapToSram

SysTickEnableBits == SysTick_CTRL_ENABLE_Msk \cup SysTick_CTRL_TICKINT_Msk

(***************************************************************************)
(* C16: whatever the SysTick control register held, after stage two's      *)
(* write it holds the clock-source bit alone (timer enable and interrupt   *)
(* enable clear) up to the call of armcm_main; the ICSR write that clears  *)
(* pending PendSV and SysTick comes directly after a data synchronization  *)
(* barrier that follows the SysTick write, leaves neither pending, and no  *)
(* step of the boot run sets an enable bit.                                *)
(***************************************************************************)
C16_SysTickDisabled ==
    /\ [](/\ Within("s2_systick_dsb", "armcm_main") =>
                SysTick_CTRL = SysTick_CTRL_CLKSOURCE_Msk
          /\ \A k \in 1 .. Len(log) : log[k] = <<"ICSR", 0>> =>
                /\ k > 2
                /\ log[k - 1] = <<"DSB", 0>>
                /\ log[k - 2] = <<"SysTick_CTRL", 0>>
          /\ Within("s2_shp", "armcm_main") =>
                SCB_pend \cap (SCB_ICSR_PENDSVCLR_Msk \cup SCB_ICSR_PENDSTCLR_Msk) = {})
    /\ [][(SysTick_CTRL' \cap SysTickEnableBits) \subseteq SysTick_CTRL]_vars

C16_Witness ==
    /\ ~config /\ pc = "s2_shp" /\ i = 0 /\ handler = "none"
    /\ SysTickEnableBits \subseteq entry.ctrl
    /\ "PENDST" \in entry.scb_pend
    /\ SysTick_CTRL = SysTick_CTRL_CLKSOURCE_Msk
    /\ log[Len(log)] = <<"ICSR", 0>>

(***************************************************************************)
(* C17: in a boot run, when armcm_main is called every word of the data    *)
(* region and of the bss region has been stored to exactly once, each      *)
(* clear-enable, clear-pending, interrupt priority and system handler      *)
(* priority register has been written exactly once, and no other word has  *)
(* been stored to except, with the RAM vector table configured, the words  *)
(* of that table; nothing is written a second time at any point.           *)
(***************************************************************************)
C17_OnePass ==
    /\ \A a \in Addrs : wcount[a] <= 1
    /\ \A g \in Groups : Occurrences("ICER", g) <= 1 /\ Occurrences("ICPR", g) <= 1
    /\ \A k \in IPIdx : Occurrences("IP", k) <= 1
    /\ \A k \in SHPIdx : Occurrences("SHP", k) <= 1
    /\ \A a \in Addrs \ (DataWords \cup BssWords \cup (IF config THEN RamVtWords ELSE {})) :
          wcount[a] = 0
    /\ Within("armcm_main", "s2_halt") =>
          /\ \A a \in DataWords \cup BssWords : wcount[a] = 1
          /\ \A g \in Groups : Occurrences("ICER", g) = 1 /\ Occurrences("ICPR", g) = 1
          /\ \A k \in IPIdx : Occurrences("IP", k) = 1
          /\ \A k \in SHPIdx : Occurrences("SHP", k) = 1

C17_Witness ==
    /\ pc = "armcm_main" /\ handler = "none"
    /\ Cardinality(DataWords) = MaxData /\ Cardinality(BssWords) = MaxBss
    /\ \A a \in DataWords \cup BssWords : wcount[a] = 1
    /\ wcount[lds._stack_start] = 0
    /\ Occurrences("IP", NIP - 1) = 1

OtherBdcrBits(r) == r \ RCC_BDCR_BDRST

BdrstPulsed ==
    /\ Occurrences("RCC_BDCR_set", 0) <= 1
    /\ Occurrences("RCC_BDCR_clr", 0) <= 1
    /\ \A k \in 1 .. Len(log) : log[k] = <<"RCC_BDCR_clr", 0>> =>
          (k > 1 /\ log[k - 1] = <<"RCC_BDCR_set", 0>>)
    /\ Within("rh_set_sp", "s2_halt") =>
          /\ Occurrences("RCC_BDCR_set", 0) = 1
          /\ Occurrences("RCC_BDCR_clr", 0) = 1
          /\ RCC_BDCR \cap RCC_BDCR_BDRST = {}

(***************************************************************************)
(* C18 as stated: in the RAM-vector configuration stage one sets BDRST and *)
(* then clears it, once each; afterwards the bit is clear and every other  *)
(* bit of RCC->BDCR is as it was before the pulse.                         *)
(***************************************************************************)
C18_PulseKeepsOtherBits ==
    config =>
        /\ BdrstPulsed
        /\ Within("rh_set_sp", "s2_halt") => OtherBdcrBits(RCC_BDCR) = OtherBdcrBits(entry.bdcr)

(***************************************************************************)
(* C18 amended: in the RAM-vector configuration stage one sets BDRST and   *)
(* then clears it, once each and in that order; afterwards the bit is      *)
(* clear, the two writes change no other bit of RCC->BDCR, and the other   *)
(* bits are either as before the pulse or at their power-on value, to      *)
(* which the backup-domain reset the pulse causes puts them.               *)
(***************************************************************************)
C18_PulseResetsOrKeeps ==
    /\ [](config =>
            /\ BdrstPulsed
            /\ OtherBdcrBits(RCC_BDCR) \in {OtherBdcrBits(entry.bdcr), {}})
    /\ [][log' # log => OtherBdcrBits(RCC_BDCR') = OtherBdcrBits(RCC_BDCR)]_vars

C18_Witness ==
    /\ config /\ pc = "rh_set_sp" /\ handler = "none"
    /\ entry.bdcr = {"LSEON", "BDRST"}
    /\ RCC_BDCR = {}
    /\ log[Len(log)] = <<"RCC_BDCR_clr", 0>>

(***************************************************************************)
(* Boot run under fair scheduling: the core keeps executing instructions,  *)
(* so a step is taken whenever one is possible.                            *)
(***************************************************************************)
SpecLive == Init /\ [][Next]_vars /\ WF_vars(Next)

BeforeHandOff == pc # "ResetHandler" /\ Rank(pc) < Rank("armcm_main")

(***************************************************************************)
(* C19: for every layout and every entry state, a boot run that has begun  *)
(* executing ResetHandler eventually calls armcm_main.                     *)
(***************************************************************************)
C19_EventuallyMain == BeforeHandOff ~> (pc = "armcm_main")

\* the runs in which no exception is taken do reach the call
C19_MainUnlessHandler == BeforeHandOff ~> (pc = "armcm_main" \/ handler # "none")

(***************************************************************************)
(* boot_memcpy and boot_memset called with byte counts that are and are    *)
(* not multiples of the word size, followed for one full period of the     *)
(* count: n returns to its first value after SizeMod / WordSize            *)
(* subtractions, so what holds over one period holds for ever.             *)
(***************************************************************************)
CountCalls ==
    [fn : {"boot_memcpy", "boot_memset"}, dest : {RamBase}, src : {0}, c : {1},
     n : 0 .. (2 * WordSize), pat : {"addr"}]

CountPeriod == SizeMod \div WordSize

\* loop iterations made so far: the words the destination pointer has advanced by
Iterations == ((IF entry.fn = "boot_memcpy" THEN d ELSE p) - entry.dest) \div WordSize

InitCount == PrimReset(CountCalls)

NextCount == Iterations < CountPeriod /\ (boot_memcpy \/ boot_memset)

SpecCount == InitCount /\ [][NextCount]_vars

(***************************************************************************)
(* C20: with n a multiple of 4 the loop of boot_memcpy / boot_memset makes *)
(* exactly n/4 iterations and ends; with n not a multiple of 4 the count   *)
(* keeps its remainder, wraps past zero without ever being zero, the loop  *)
(* never ends and words beyond the intended range are stored to.           *)
(***************************************************************************)
C20_LoopCount ==
    /\ n = (entry.n - WordSize * Iterations) % SizeMod
    /\ \A a \in Addrs :
          wcount[a] = IF entry.dest <= a /\ a < entry.dest + WordSize * Iterations
                         THEN 1 ELSE 0
    /\ IF entry.n % WordSize = 0
          THEN /\ Iterations <= entry.n \div WordSize
               /\ n = 0 <=> Iterations = entry.n \div WordSize
               /\ pc = "done" => n = 0
          ELSE /\ n # 0
               /\ n % WordSize = entry.n % WordSize
               /\ pc # "done"
               /\ Iterations = CountPeriod => n = entry.n

C20_Witness ==
    /\ entry.n % WordSize # 0
    /\ entry.n < WordSize
    /\ Iterations = 1 + (MemTop - RamBase) \div WordSize
    /\ n > entry.n
    /\ pc = entry.fn
    /\ \A a \in WordsOf(RamBase, MemTop) : wcount[a] = 1

=============================================================================
